---- MODULE Spec2Model ----
(***************************************************************************)
(* Model of src/app.py: the text normaliser clean_text and the three       *)
(* extractors extract_pdf, extract_pptx and extract_docx.                  *)
(*                                                                         *)
(* A text is a sequence of characters; a character is a one-element token  *)
(* (a string).  Two tokens stand for non-ASCII characters: NonAsciiLetter  *)
(* (such as U+00E9) and NonAsciiSpace (such as U+00A0, which Python's \s   *)
(* and str.strip treat as whitespace).                                     *)
(*                                                                         *)
(* The variable doc holds the part of the input document the call has read *)
(* so far: a step that reads a page, a slide or a paragraph draws it from  *)
(* the possible ones and appends it to doc; a loop ends when the document  *)
(* has no further element.                                                 *)
(***************************************************************************)
EXTENDS Integers, Sequences, FiniteSets, TLC

VARIABLES
    pc,            \* position of the running call
    caps,          \* which PDF libraries can be imported
    doc,           \* the input document
    handles,       \* state of the handles opened by extract_pdf
    page_num,      \* extract_pdf: loop index (page_num / i)
    slides_data,   \* extract_pdf (primary tier), extract_pptx: blocks so far
    all_images,    \* extract_pdf: images so far
    text_content,  \* extract_pdf (fallback tiers): blocks so far
    idx,           \* extract_pptx: 1-based slide index
    images,        \* extract_pptx, extract_docx: images so far
    sections,      \* extract_docx: blocks so far
    current_text,  \* extract_docx: accumulator of body lines
    section_count, \* extract_docx: running section counter
    para_num,      \* extract_docx: number of paragraphs walked
    text,          \* clean_text: the input text
    once,          \* clean_text(text)
    twice,         \* clean_text(clean_text(text))
    ret            \* the value returned to the caller

vars == <<pc, caps, doc, handles, page_num, slides_data, all_images,
          text_content, idx, images, sections, current_text, section_count,
          para_num, text, once, twice, ret>>

(***************************************************************************)
(* Bounds of the model.                                                    *)
(***************************************************************************)
MaxPages == 2
MaxImgs == 2
MaxSlides == 2
MaxShapes == 1
MaxParas == 3
MaxRels == 2
MaxTextLen == 4

(***************************************************************************)
(* Constants of the program.                                               *)
(***************************************************************************)
PageContentMin == 50
SlideContentMin == 30
ShapeTitleMax == 100
FirstLineMax == 80
HeadingMax == 100
PICTURE == 13

(***************************************************************************)
(* Characters and texts.                                                   *)
(***************************************************************************)
NonAsciiLetter == "U+00E9"
NonAsciiSpace == "U+00A0"

Upper == {"A","B","C","D","E","F","G","H","I","J","K","L","M",
          "N","O","P","Q","R","S","T","U","V","W","X","Y","Z"}
Lower == {"a","b","c","d","e","f","g","h","i","j","k","l","m",
          "n","o","p","q","r","s","t","u","v","w","x","y","z", NonAsciiLetter}

IsSpace(c) == c \in {" ", "\n", "\t", NonAsciiSpace}
IsAscii(c) == c \notin {NonAsciiLetter, NonAsciiSpace}

SeqsUpTo(S, n) == UNION {[1..k -> S] : k \in 0..n}
Rep(c, n) == [i \in 1..n |-> c]

\* str.strip()
Strip(s) ==
    LET keep == SelectSeq([i \in 1..Len(s) |-> i], LAMBDA i : ~IsSpace(s[i]))
    IN  IF keep = <<>> THEN <<>> ELSE SubSeq(s, keep[1], keep[Len(keep)])

\* re.sub(r'\s+', ' ', text): every maximal run of whitespace becomes " "
CollapseSpace(s) ==
    LET marked == [i \in 1..Len(s) |->
                      [c |-> s[i], first |-> i = 1 \/ ~IsSpace(s[i - 1])]]
        kept == SelectSeq(marked, LAMBDA e : ~IsSpace(e.c) \/ e.first)
    IN  [i \in 1..Len(kept) |-> IF IsSpace(kept[i].c) THEN " " ELSE kept[i].c]

\* re.sub(r'[^\x00-\x7F]+', ' ', text): every maximal run of non-ASCII
\* characters becomes " "
ReplaceNonAscii(s) ==
    LET marked == [i \in 1..Len(s) |->
                      [c |-> s[i], first |-> i = 1 \/ IsAscii(s[i - 1])]]
        kept == SelectSeq(marked, LAMBDA e : IsAscii(e.c) \/ e.first)
    IN  [i \in 1..Len(kept) |-> IF IsAscii(kept[i].c) THEN kept[i].c ELSE " "]

clean_text(t) ==
    IF t = <<>> THEN <<>>
    ELSE Strip(ReplaceNonAscii(CollapseSpace(t)))

\* str.split(sep): the fragments between the occurrences of sep
RECURSIVE Split(_, _)
Split(s, sep) ==
    LET at == {i \in 1..Len(s) : s[i] = sep}
    IN  IF at = {} THEN <<s>>
        ELSE LET k == CHOOSE i \in at : \A j \in at : i <= j
             IN  <<SubSeq(s, 1, k - 1)>> \o Split(SubSeq(s, k + 1, Len(s)), sep)

\* sep.join(parts)
RECURSIVE Join(_, _)
Join(parts, sep) ==
    IF parts = <<>> THEN <<>>
    ELSE IF Len(parts) = 1 THEN parts[1]
    ELSE parts[1] \o sep \o Join(Tail(parts), sep)

\* str(n) for n >= 0, as a text
RECURSIVE Digits(_)
Digits(n) ==
    LET d == <<"0","1","2","3","4","5","6","7","8","9">>
    IN  IF n < 10 THEN <<d[n + 1]>> ELSE Digits(n \div 10) \o <<d[(n % 10) + 1]>>

\* str.isupper(): some cased character, and no lower-case one
IsUpper(s) ==
    /\ \E i \in 1..Len(s) : s[i] \in Upper
    /\ \A i \in 1..Len(s) : s[i] \notin Lower

EndsWith(s, c) == s # <<>> /\ s[Len(s)] = c

Block(number, type, title, content, has_content) ==
    [number |-> number, type |-> type, title |-> title, content |-> content,
     has_content |-> has_content]

Image(id, slide, ext, type) ==
    [id |-> id, slide |-> slide, src |-> "data:image/" \o ext \o ";base64", type |-> type]

NoRet == [blocks |-> <<>>, images |-> <<>>]
NoDoc == [kind |-> "none"]
Ok(v) == [fault |-> "none", val |-> v]
Raises == [fault |-> "error", val |-> <<>>]
NotRead == [fault |-> "notread", val |-> <<>>]
NoCaps == [fitz |-> FALSE, pdfplumber |-> FALSE]
NoHandles == [h \in {"fitz", "pdfplumber", "file"} |-> "none"]

(***************************************************************************)
(* extract_pdf                                                             *)
(*                                                                         *)
(* A page of the input is [text, images].  Each is the outcome of the call *)
(* that reads it (page.get_text or page.extract_text, page.get_images):    *)
(* Ok(v) when it returns v, Raises when it raises an error (other than     *)
(* ImportError), NotRead when the code did not get to it.  An entry of the *)
(* image list is the extension of the image, or "bad" when                 *)
(* doc.extract_image raises for it.  The file itself can be opened.        *)
(***************************************************************************)
PdfTexts == {<<"\n">>, Rep("a", PageContentMin + 1)}
PdfImageItems == {"png", "bad"}
FitzPages ==
    {[text |-> Ok(t), images |-> im] :
        t \in PdfTexts,
        im \in {Ok(v) : v \in SeqsUpTo(PdfImageItems, MaxImgs)} \cup {Raises}}
    \cup {[text |-> Raises, images |-> NotRead]}
PlumberPages ==
    {[text |-> t, images |-> NotRead] : t \in {Ok(v) : v \in PdfTexts} \cup {Raises}}
RawTexts == {<<>>, <<"a", " ", NonAsciiLetter>>}

Str_Page == <<"P","a","g","e"," ">>
Str_Document == <<"D","o","c","u","m","e","n","t">>

\* a variant of PdfImageId that leaves the index of the image out
PdfImageId_PageOnly(pn, img_index) ==
    "pdf_p" \o ToString(pn) \o "_img" \o ToString(pn)

PdfImageId(pn, img_index) ==
    "pdf_p" \o ToString(pn) \o "_img" \o ToString(img_index)

PageBlock(n, clean) ==
    Block(n, "page", Str_Page \o Digits(n), clean, Len(clean) > PageContentMin)

\* the inner loop over enumerate(image_list), from img_index on
RECURSIVE PdfImages(_, _, _)
PdfImages(image_list, pn, img_index) ==
    IF img_index >= Len(image_list) THEN <<>>
    ELSE (IF image_list[img_index + 1] # "bad"
          THEN <<Image(PdfImageId(pn, img_index), pn + 1,
                       image_list[img_index + 1], "pdf")>>
          ELSE <<>>)
         \o PdfImages(image_list, pn, img_index + 1)

OtherUnchangedPdf ==
    UNCHANGED <<caps, idx, images, sections, current_text, section_count,
                para_num, text, once, twice>>

\* lines 29-33; when fitz cannot be imported, the handler of line 69 up to
\* the import of pdfplumber (lines 71-74) or to the handler of line 86
PdfStart ==
    /\ pc = "pdf_start"
    /\ IF caps.fitz
       THEN /\ pc' = "pdf_fitz_loop"
            /\ handles' = [handles EXCEPT !["fitz"] = "open"]
       ELSE IF caps.pdfplumber
       THEN /\ pc' = "pdf_plumber_loop"
            /\ handles' = [handles EXCEPT !["pdfplumber"] = "open"]
       ELSE /\ pc' = "pdf_raw"
            /\ UNCHANGED handles
    /\ slides_data' = <<>>
    /\ all_images' = <<>>
    /\ text_content' = <<>>
    /\ page_num' = 0
    /\ UNCHANGED <<doc, ret>>
    /\ OtherUnchangedPdf

\* one iteration of the loop of lines 35-65, on a further page of the document
PdfFitzPage ==
    /\ pc = "pdf_fitz_loop"
    /\ page_num = Len(doc.pages)
    /\ page_num < MaxPages
    /\ \E page \in FitzPages :
          LET clean == clean_text(page.text.val)
              appended == IF clean # <<>>
                          THEN Append(slides_data, PageBlock(page_num + 1, clean))
                          ELSE slides_data
          IN  /\ doc' = [doc EXCEPT !.pages = Append(@, page)]
              /\ IF page.text.fault # "none"
                 THEN /\ pc' = "raised"
                      /\ UNCHANGED <<page_num, slides_data, all_images>>
                 ELSE IF page.images.fault # "none"
                 THEN /\ pc' = "raised"
                      /\ slides_data' = appended
                      /\ UNCHANGED <<page_num, all_images>>
                 ELSE /\ slides_data' = appended
                      /\ all_images' =
                            all_images \o PdfImages(page.images.val, page_num, 0)
                      /\ page_num' = page_num + 1
                      /\ UNCHANGED pc
    /\ UNCHANGED <<handles, text_content, ret>>
    /\ OtherUnchangedPdf

\* lines 66-67, when the document has no further page
PdfFitzReturn ==
    /\ pc = "pdf_fitz_loop"
    /\ page_num = Len(doc.pages)
    /\ handles' = [handles EXCEPT !["fitz"] = "closed"]
    /\ ret' = [blocks |-> slides_data, images |-> all_images]
    /\ pc' = "done"
    /\ UNCHANGED <<doc, page_num, slides_data, all_images, text_content>>
    /\ OtherUnchangedPdf

\* one iteration of the loop of lines 75-85, on a further page; an error
\* leaves the with statement, which closes the file, and is caught at line 86
PdfPlumberPage ==
    /\ pc = "pdf_plumber_loop"
    /\ page_num = Len(doc.pages)
    /\ page_num < MaxPages
    /\ \E page \in PlumberPages :
          LET clean == clean_text(page.text.val)
          IN  /\ doc' = [doc EXCEPT !.pages = Append(@, page)]
              /\ IF page.text.fault # "none"
                 THEN /\ pc' = "pdf_raw"
                      /\ handles' = [handles EXCEPT !["pdfplumber"] = "closed"]
                      /\ UNCHANGED <<page_num, text_content>>
                 ELSE /\ text_content' =
                            IF clean # <<>>
                            THEN Append(text_content, PageBlock(page_num + 1, clean))
                            ELSE text_content
                      /\ page_num' = page_num + 1
                      /\ UNCHANGED <<pc, handles>>
    /\ UNCHANGED <<slides_data, all_images, ret>>
    /\ OtherUnchangedPdf

\* the end of the with statement and line 98, when the document has no
\* further page
PdfPlumberReturn ==
    /\ pc = "pdf_plumber_loop"
    /\ page_num = Len(doc.pages)
    /\ handles' = [handles EXCEPT !["pdfplumber"] = "closed"]
    /\ ret' = [blocks |-> text_content, images |-> <<>>]
    /\ pc' = "done"
    /\ UNCHANGED <<doc, page_num, slides_data, all_images, text_content>>
    /\ OtherUnchangedPdf

\* lines 86-98: the last resort, the file read as text
PdfRaw ==
    /\ pc = "pdf_raw"
    /\ \E raw \in RawTexts :
          LET blocks == Append(text_content,
                               Block(1, "page", Str_Document, clean_text(raw), TRUE))
          IN  /\ text_content' = blocks
              /\ ret' = [blocks |-> blocks, images |-> <<>>]
    /\ handles' = [handles EXCEPT !["file"] = "closed"]
    /\ pc' = "done"
    /\ UNCHANGED <<doc, page_num, slides_data, all_images>>
    /\ OtherUnchangedPdf

(***************************************************************************)
(* extract_pptx                                                            *)
(*                                                                         *)
(* A shape is [has_text, text, shape_type, image]: whether it has a text   *)
(* attribute, that text, the outcome of reading shape.shape_type, and the  *)
(* extension of its image ("bad" when shape.image or image.blob raises,    *)
(* "none" for a shape that is no picture).  A text box has shape_type 17.  *)
(* No shape of a slide follows one whose shape_type raises: the code does  *)
(* not read it.                                                            *)
(***************************************************************************)
PptxTexts ==
    {<<"H", ".", " ", "i", " ">>, Rep("x", FirstLineMax), Rep("x", ShapeTitleMax)}
PptxShapes ==
    {[has_text |-> TRUE, text |-> t, shape_type |-> Ok(17), image |-> "none"] :
        t \in PptxTexts}
    \cup {[has_text |-> FALSE, text |-> <<>>, shape_type |-> Ok(PICTURE), image |-> i] :
        i \in {"png", "bad"}}
    \cup {[has_text |-> FALSE, text |-> <<>>, shape_type |-> Raises, image |-> "none"]}
PptxSlides ==
    {sl \in SeqsUpTo(PptxShapes, MaxShapes) :
        \A k \in 1..(Len(sl) - 1) : sl[k].shape_type.fault = "none"}

Str_Slide == <<"S","l","i","d","e"," ">>

PptxImageId(i, n) ==
    "pptx_s" \o ToString(i) \o "_img" \o ToString(n)

\* a variant of IsTitleCandidate that takes a title on every slide
IsTitleCandidate_AnySlide(has_title, stripped, i) ==
    ~has_title /\ Len(stripped) < ShapeTitleMax

\* the condition of line 117
IsTitleCandidate(has_title, stripped, i) ==
    ~has_title /\ Len(stripped) < ShapeTitleMax /\ i = 1

\* the loop of lines 114-137 from shape k on; st holds the locals
\* slide_text, slide_title, has_title and images, and whether an error left
\* the loop
RECURSIVE ShapeWalk(_, _, _, _)
ShapeWalk(shapes, k, i, st) ==
    IF k > Len(shapes) THEN st
    ELSE LET shape == shapes[k]
             stripped == Strip(shape.text)
             st1 == IF shape.has_text /\ stripped # <<>>
                    THEN IF IsTitleCandidate(st.has_title, stripped, i)
                         THEN [st EXCEPT !.slide_title = stripped, !.has_title = TRUE]
                         ELSE [st EXCEPT !.slide_text = Append(@, stripped)]
                    ELSE st
         IN  IF shape.shape_type.fault # "none"
             THEN [st1 EXCEPT !.raised = TRUE]
             ELSE IF shape.shape_type.val = PICTURE /\ shape.image # "bad"
             THEN ShapeWalk(shapes, k + 1, i,
                     [st1 EXCEPT !.images =
                         Append(@, Image(PptxImageId(i, Len(st1.images)), i,
                                         shape.image, "pptx"))])
             ELSE ShapeWalk(shapes, k + 1, i, st1)

\* lines 139-153: the block of slide i, from the locals after the walk
SlideBlock(i, st) ==
    LET content == clean_text(Join(st.slide_text, <<"\n">>))
        lines == Split(content, ".")
    IN  IF Len(lines) > 0 /\ Len(lines[1]) < FirstLineMax /\ ~st.has_title
        THEN LET rest == Strip(Join(Tail(lines), <<".">>))
             IN  Block(i, "slide", Strip(lines[1]), rest, Len(rest) > SlideContentMin)
        ELSE Block(i, "slide", st.slide_title, content, Len(content) > SlideContentMin)

OtherUnchangedPptx ==
    UNCHANGED <<caps, handles, page_num, all_images, text_content, sections,
                current_text, section_count, para_num, text, once, twice>>

\* one iteration of the loop of lines 108-153, on a further slide
PptxSlide ==
    /\ pc = "pptx_loop"
    /\ idx = Len(doc.slides)
    /\ idx < MaxSlides
    /\ \E slide \in PptxSlides :
          LET i == idx + 1
              st == ShapeWalk(slide, 1, i,
                              [slide_text |-> <<>>,
                               slide_title |-> Str_Slide \o Digits(i),
                               has_title |-> FALSE, images |-> images,
                               raised |-> FALSE])
          IN  /\ doc' = [doc EXCEPT !.slides = Append(@, slide)]
              /\ images' = st.images
              /\ IF st.raised
                 THEN /\ pc' = "raised"
                      /\ UNCHANGED <<idx, slides_data>>
                 ELSE /\ slides_data' = Append(slides_data, SlideBlock(i, st))
                      /\ idx' = i
                      /\ UNCHANGED pc
    /\ UNCHANGED ret
    /\ OtherUnchangedPptx

\* line 155, when the deck has no further slide
PptxReturn ==
    /\ pc = "pptx_loop"
    /\ idx = Len(doc.slides)
    /\ ret' = [blocks |-> slides_data, images |-> images]
    /\ pc' = "done"
    /\ UNCHANGED <<doc, idx, slides_data, images>>
    /\ OtherUnchangedPptx

(***************************************************************************)
(* extract_docx                                                            *)
(*                                                                         *)
(* A paragraph is [text, heading_style], the latter standing for           *)
(* para.style.name.startswith('Heading').  A relationship is "other" (no   *)
(* image), the signature of its image ("png", "jpeg"), "bad" (reading the  *)
(* blob raises) or "ref_fault" (reading target_ref raises).                *)
(***************************************************************************)
DocxParas ==
    {[text |-> <<" ">>, heading_style |-> FALSE],
     [text |-> <<"a", "b">>, heading_style |-> FALSE],
     [text |-> <<" ", "c", NonAsciiLetter>>, heading_style |-> TRUE],
     [text |-> <<"A", "B", " ">>, heading_style |-> FALSE],
     [text |-> <<"a", ":">>, heading_style |-> FALSE],
     [text |-> Rep("A", HeadingMax), heading_style |-> TRUE]}
DocxRels ==
    {Ok(r) : r \in SeqsUpTo({"other", "png", "jpeg", "bad", "ref_fault"},
                            MaxRels)}
    \cup {Raises}

Str_Section == <<"S","e","c","t","i","o","n"," ">>

DocxImageId(n) == "docx_img" \o ToString(n)

\* the condition of line 173
IsHeading(t, heading_style) ==
    Len(t) < HeadingMax /\ (IsUpper(t) \/ EndsWith(t, ":") \/ heading_style)

\* the section block of lines 175-181 and 196-202
SectionBlock(count, lines) ==
    Block(count, "section", Str_Section \o Digits(count),
          clean_text(Join(lines, <<"\n">>)), TRUE)

\* the heading block of lines 184-190
HeadingBlock(count, t) == Block(count, "heading", t, <<>>, FALSE)

\* a variant of CountAfterHeading that advances on every heading
CountAfterHeading_Always(count, lines) == count + 1

\* section_count after a heading paragraph (lines 174 and 182)
CountAfterHeading(count, lines) == IF lines # <<>> THEN count + 1 ELSE count

\* the loop of lines 207-225 from relationship k on; an error of
\* rel.target_ref leaves the loop for the handler of line 226
RECURSIVE DocxImages(_, _, _)
DocxImages(rels, k, imgs) ==
    IF k > Len(rels) \/ rels[k] = "ref_fault" THEN imgs
    ELSE IF rels[k] \in {"other", "bad"} THEN DocxImages(rels, k + 1, imgs)
    ELSE DocxImages(rels, k + 1,
            Append(imgs, Image(DocxImageId(Len(imgs)), 1,
                               IF rels[k] = "jpeg" THEN "jpeg" ELSE "png", "docx")))

OtherUnchangedDocx ==
    UNCHANGED <<caps, handles, page_num, slides_data, all_images,
                text_content, idx, text, once, twice>>

\* one iteration of the loop of lines 167-192, on a further paragraph
DocxPara ==
    /\ pc = "docx_walk"
    /\ para_num = Len(doc.paragraphs)
    /\ para_num < MaxParas
    /\ \E para \in DocxParas :
          LET t == Strip(para.text)
          IN  /\ doc' = [doc EXCEPT !.paragraphs = Append(@, para)]
              /\ IF t = <<>>
                 THEN UNCHANGED <<sections, current_text, section_count>>
                 ELSE IF IsHeading(t, para.heading_style)
                 THEN LET count == CountAfterHeading(section_count, current_text)
                          flushed ==
                              IF current_text # <<>>
                              THEN Append(sections,
                                          SectionBlock(section_count, current_text))
                              ELSE sections
                      IN  /\ sections' = Append(flushed, HeadingBlock(count, t))
                          /\ section_count' = count
                          /\ current_text' = <<>>
                 ELSE /\ current_text' = Append(current_text, t)
                      /\ UNCHANGED <<sections, section_count>>
    /\ para_num' = para_num + 1
    /\ UNCHANGED <<pc, images, ret>>
    /\ OtherUnchangedDocx

\* lines 194-240, when the document has no further paragraph: the last
\* flush, the images, the fallback and the return
DocxFinish ==
    /\ pc = "docx_walk"
    /\ para_num = Len(doc.paragraphs)
    /\ LET flushed == IF current_text # <<>>
                      THEN Append(sections, SectionBlock(section_count, current_text))
                      ELSE sections
           nonblank == SelectSeq(doc.paragraphs, LAMBDA p : Strip(p.text) # <<>>)
           full_text == Join([k \in 1..Len(nonblank) |-> nonblank[k].text], <<"\n">>)
           result == IF flushed = <<>>
                     THEN <<Block(1, "document", Str_Document,
                                  clean_text(full_text), TRUE)>>
                     ELSE flushed
       IN  /\ sections' = result
           /\ \E rels \in DocxRels :
                 LET imgs == IF rels.fault # "none" THEN images
                             ELSE DocxImages(rels.val, 1, images)
                 IN  /\ images' = imgs
                     /\ ret' = [blocks |-> result, images |-> imgs]
    /\ pc' = "done"
    /\ UNCHANGED <<doc, current_text, section_count, para_num>>
    /\ OtherUnchangedDocx

(***************************************************************************)
(* clean_text applied once and twice to a text.                            *)
(***************************************************************************)
CleanChars == {"a", " ", "\n", NonAsciiLetter, NonAsciiSpace}

OtherUnchangedClean ==
    UNCHANGED <<caps, doc, handles, page_num, slides_data, all_images,
                text_content, idx, images, sections, current_text, section_count,
                para_num, text, ret>>

CleanOnce ==
    /\ pc = "clean_start"
    /\ once' = clean_text(text)
    /\ pc' = "clean_once"
    /\ UNCHANGED twice
    /\ OtherUnchangedClean

CleanTwice ==
    /\ pc = "clean_once"
    /\ twice' = clean_text(once)
    /\ pc' = "clean_done"
    /\ UNCHANGED once
    /\ OtherUnchangedClean

(***************************************************************************)
(* The specification: one call of one of the four functions.               *)
(***************************************************************************)
InitLocals ==
    /\ handles = NoHandles
    /\ page_num = 0
    /\ slides_data = <<>>
    /\ all_images = <<>>
    /\ text_content = <<>>
    /\ idx = 0
    /\ images = <<>>
    /\ sections = <<>>
    /\ current_text = <<>>
    /\ section_count = 1
    /\ para_num = 0
    /\ once = <<>>
    /\ twice = <<>>
    /\ ret = NoRet

InitPdf ==
    /\ pc = "pdf_start"
    /\ caps \in [fitz : BOOLEAN, pdfplumber : BOOLEAN]
    /\ doc = [kind |-> "pdf", pages |-> <<>>]
    /\ text = <<>>
    /\ InitLocals

InitPptx ==
    /\ pc = "pptx_loop"
    /\ caps = NoCaps
    /\ doc = [kind |-> "pptx", slides |-> <<>>]
    /\ text = <<>>
    /\ InitLocals

InitDocx ==
    /\ pc = "docx_walk"
    /\ caps = NoCaps
    /\ doc = [kind |-> "docx", paragraphs |-> <<>>]
    /\ text = <<>>
    /\ InitLocals

InitClean ==
    /\ pc = "clean_start"
    /\ caps = NoCaps
    /\ doc = NoDoc
    /\ text \in SeqsUpTo(CleanChars, MaxTextLen)
    /\ InitLocals

Init == InitPdf \/ InitPptx \/ InitDocx \/ InitClean

Next ==
    \/ PdfStart
    \/ PdfFitzPage
    \/ PdfFitzReturn
    \/ PdfPlumberPage
    \/ PdfPlumberReturn
    \/ PdfRaw
    \/ PptxSlide
    \/ PptxReturn
    \/ DocxPara
    \/ DocxFinish
    \/ CleanOnce
    \/ CleanTwice

Spec == Init /\ [][Next]_vars

(***************************************************************************)
(* Properties.                                                             *)
(***************************************************************************)
Returned(kind) == pc = "done" /\ doc.kind = kind

IsSubText(t, c) ==
    \E o \in 0..(Len(c) - Len(t)) : SubSeq(c, o + 1, o + Len(t)) = t

DistinctIds(imgs) ==
    \A i, j \in 1..Len(imgs) : i # j => imgs[i].id # imgs[j].id

\* C1: the numbers of the returned blocks, in emission order, are exactly
\* 1, 2, ..., K, where K is the number of blocks returned.
C1_NumbersContiguous ==
    pc = "done" => \A k \in 1..Len(ret.blocks) : ret.blocks[k].number = k

\* C2: every returned image refers to the number of a returned block, except
\* the images of extract_docx, which always refer to 1.
C2_ImageRefsExist ==
    pc = "done" =>
        \A i \in 1..Len(ret.images) :
            IF ret.images[i].type = "docx"
            THEN ret.images[i].slide = 1
            ELSE \E k \in 1..Len(ret.blocks) :
                    ret.blocks[k].number = ret.images[i].slide

\* C3: every returned block has a non-empty title, and a slide without any
\* text element is titled "Slide {idx}".
C3_TitlesNonEmpty ==
    /\ pc = "done" => \A k \in 1..Len(ret.blocks) : ret.blocks[k].title # <<>>
    /\ Returned("pptx") =>
          \A i \in 1..Len(doc.slides) :
              (\A k \in 1..Len(doc.slides[i]) :
                  ~doc.slides[i][k].has_text \/ Strip(doc.slides[i][k].text) = <<>>)
              => ret.blocks[i].title = Str_Slide \o Digits(i)

\* a slide that holds one element only, a non-empty text shorter than 100
\* characters
SingleShortText(slide) ==
    /\ Len(slide) = 1
    /\ slide[1].has_text
    /\ Strip(slide[1].text) # <<>>
    /\ Len(Strip(slide[1].text)) < ShapeTitleMax

\* C4 as claimed: such a text becomes the title of slide 1 and is not in its
\* body; alone on a slide of index >= 2 it is in the body and is not the title.
C4_TitleOnlyOnFirstSlide ==
    Returned("pptx") =>
        \A i \in 1..Len(doc.slides) :
            SingleShortText(doc.slides[i]) =>
                LET t == Strip(doc.slides[i][1].text)
                    b == ret.blocks[i]
                IN  IF i = 1
                    THEN b.title = t /\ ~IsSubText(t, b.content)
                    ELSE b.title # t /\ IsSubText(t, b.content)

\* C4 amended: such a text becomes the title of slide 1, whose body is empty;
\* alone on a slide of index >= 2 it stays in the body under the title
\* "Slide {idx}" only when the part of its cleaned text before the first '.'
\* has 80 characters or more; otherwise that part, trimmed, is the title and
\* the trimmed text after the first '.' is the body.
C4_TitleByFirstFragment ==
    Returned("pptx") =>
        \A i \in 1..Len(doc.slides) :
            SingleShortText(doc.slides[i]) =>
                LET t == Strip(doc.slides[i][1].text)
                    b == ret.blocks[i]
                    c == clean_text(t)
                    dots == {k \in 1..Len(c) : c[k] = "."}
                    cut == IF dots = {} THEN Len(c) + 1
                           ELSE CHOOSE k \in dots : \A m \in dots : k <= m
                IN  IF i = 1
                    THEN b.title = t /\ b.content = <<>>
                    ELSE IF cut - 1 < FirstLineMax
                    THEN /\ b.title = Strip(SubSeq(c, 1, cut - 1))
                         /\ b.content = Strip(SubSeq(c, cut + 1, Len(c)))
                    ELSE /\ b.title = Str_Slide \o Digits(i)
                         /\ b.content = c

C4_Witness ==
    /\ Returned("pptx")
    /\ Len(doc.slides) = 2
    /\ SingleShortText(doc.slides[1])
    /\ SingleShortText(doc.slides[2])
    /\ Len(Strip(doc.slides[2][1].text)) >= FirstLineMax
    /\ ret.blocks[1].content = <<>>
    /\ ret.blocks[2].title = Str_Slide \o Digits(2)

\* C5: clean_text is idempotent: clean_text(clean_text(s)) = clean_text(s).
C5_CleanIdempotent ==
    pc = "clean_done" => twice = once

\* C6: a failure confined to one item never aborts the extraction: no error
\* reaches the caller, and the blocks and images of the other items are
\* returned.
C6_FailureIsolated ==
    /\ pc # "raised"
    /\ Returned("pdf") /\ (caps.fitz \/ caps.pdfplumber) =>
          \A p \in 1..Len(doc.pages) :
              LET page == doc.pages[p]
              IN  /\ (page.text.fault = "none" /\ clean_text(page.text.val) # <<>>) =>
                        \E k \in 1..Len(ret.blocks) :
                            /\ ret.blocks[k].title = Str_Page \o Digits(p)
                            /\ ret.blocks[k].content = clean_text(page.text.val)
                  /\ (caps.fitz /\ page.text.fault = "none" /\ page.images.fault = "none") =>
                        \A n \in 1..Len(page.images.val) :
                            page.images.val[n] # "bad" =>
                                \E k \in 1..Len(ret.images) :
                                    /\ ret.images[k].slide = p
                                    /\ ret.images[k].id = PdfImageId(p - 1, n - 1)

\* C7: when a call of extract_pdf ends, by a return or by an error, every
\* handle it opened has been closed.
C7_HandleReleased ==
    pc \in {"done", "raised"} => \A h \in DOMAIN handles : handles[h] # "open"

\* C8: the tier of extract_pdf is decided by the capabilities alone: the
\* primary tier runs iff fitz is available, the text-only tier iff fitz is
\* absent and pdfplumber available, the raw tier (one block titled
\* "Document", significant) iff both are absent; no result mixes two tiers.
C8_TierByCapability ==
    /\ pc = "pdf_fitz_loop" => caps.fitz
    /\ pc = "pdf_plumber_loop" => ~caps.fitz /\ caps.pdfplumber
    /\ pc = "pdf_raw" => ~caps.fitz /\ ~caps.pdfplumber
    /\ Returned("pdf") =>
          LET raw == {k \in 1..Len(ret.blocks) : ret.blocks[k].title = Str_Document}
          IN  /\ raw # {} <=> (~caps.fitz /\ ~caps.pdfplumber)
              /\ raw # {} => Len(ret.blocks) = 1 /\ ret.blocks[1].has_content

NonBlank == SelectSeq(doc.paragraphs, LAMBDA p : Strip(p.text) # <<>>)
ParaText(k) == Strip(NonBlank[k].text)
IsHead(k) == IsHeading(ParaText(k), NonBlank[k].heading_style)
RunStart(k) == ~IsHead(k) /\ (k = 1 \/ IsHead(k - 1))
RunEnd(k) == ~IsHead(k) /\ (k = Len(NonBlank) \/ IsHead(k + 1))
RunsUpTo(k) == Cardinality({j \in 1..k : RunStart(j)})
\* the position, among the blocks, of the block paragraph k belongs to
BlockOf(k) == Cardinality({j \in 1..k : IsHead(j)}) + RunsUpTo(k)

\* C10: every heading paragraph yields one heading block (its text as title,
\* empty body, not significant); every maximal run of body paragraphs yields
\* one section block, placed before the heading that ends the run, whose body
\* is the run joined and cleaned; the sections are titled "Section 1",
\* "Section 2", ... in emission order.
C10_SectionsAndHeadings ==
    Returned("docx") /\ NonBlank # <<>> =>
        /\ Len(ret.blocks) = BlockOf(Len(NonBlank))
        /\ \A k \in 1..Len(NonBlank) :
              LET b == ret.blocks[BlockOf(k)]
              IN  IF IsHead(k)
                  THEN /\ b.type = "heading"
                       /\ b.title = ParaText(k)
                       /\ b.content = <<>>
                       /\ ~b.has_content
                  ELSE LET lo == CHOOSE j \in 1..k :
                                    RunStart(j) /\ \A m \in j..k : ~IsHead(m)
                           hi == CHOOSE j \in k..Len(NonBlank) :
                                    RunEnd(j) /\ \A m \in k..j : ~IsHead(m)
                       IN  /\ b.type = "section"
                           /\ b.title = Str_Section \o Digits(RunsUpTo(k))
                           /\ b.content =
                                 clean_text(Join([m \in 1..(hi - lo + 1) |->
                                                     ParaText(lo + m - 1)], <<"\n">>))

C10_Witness ==
    /\ Returned("docx")
    /\ Len(ret.blocks) = 3
    /\ ret.blocks[1].type = "section"
    /\ ret.blocks[2].type = "heading"
    /\ ret.blocks[3].type = "section"
    /\ ret.blocks[3].title = Str_Section \o Digits(2)

====
